---- MODULE Spec2Model ----
(***************************************************************************)
(* Model of the Databricks user/group manager:                             *)
(*   AuthService.{can_manage_group, get_service_principal_client}          *)
(*                                           (auth.py)                     *)
(*   GroupManager.{list_manageable_groups, get_group_members,              *)
(*                 add_user_to_groups, remove_user_from_groups}            *)
(*                                           (group_manager.py)            *)
(*   DatabricksGroupService.{get_group_members, add_user_to_group,         *)
(*                 remove_user_from_group, _audit_log}                     *)
(*                                           (databricks_service.py)       *)
(* The identity provider is the environment: its groups, access-control    *)
(* lists, memberships and user directory are state; any remote call may    *)
(* raise.  One handler runs at a time (single-threaded, blocking I/O); the *)
(* provider may change between two remote calls of a handler.  SpecConc    *)
(* alone lets several threads run the lazy accessor of the privileged      *)
(* client of a shared service instance.                                    *)
(***************************************************************************)
EXTENDS Integers, Sequences, FiniteSets, TLC

\* ------------------------------------------------------------------ bounds
MaxLen    == 2      \* longest list of group names passed to one invocation
MaxFaults == 1      \* remote calls that raise during one invocation
MaxEnv    == 1      \* provider-side changes made by other actors
MaxCallers == 2     \* threads that share one service instance

\* ---------------------------------------------------------------- universe
GroupIds   == {"g1", "g2"}
GroupNames == {"Data-Eng", "Finance", "Ghost"}
UserIds    == {"u1", "u2"}
Emails     == {"a@b.com", "nonexistent@x.com"}
NoneVal    == "none"

\* userName / email of an identity (unique key of the directory)
EmailOf == [u \in UserIds |-> IF u = "u1" THEN "a@b.com" ELSE "nonexistent@x.com"]

Principals == {"caller", "callerRole", "other"}
Levels     == {"ADMIN", "MANAGE", "READ"}
AclEntry   == [principal : Principals, permission_level : Levels]

VARIABLES
    \* --- identity provider (environment)
    displayName,    \* group id -> display name
    userVisible,    \* groups.list() as answered to the caller handle (a sequence of ids)
    spVisible,      \* groups.list() as answered to the privileged handle
    acl,            \* group id -> access_control_list
    members,        \* group id -> set of member user ids
    directory,      \* user ids present in the provider directory
    \* --- lazily built clients
    gmUserClient,   \* GroupManager._user_client is set
    gmSpClient,     \* GroupManager._service_principal_client is set
    dgsSpClient,    \* DatabricksGroupService._service_principal_client is set
    broker,         \* [creds, auths, builds]: AuthService._service_principal_creds is
                    \* set; credentials built so far; privileged clients built so
                    \* far by each service instance
    cpc,            \* thread -> where it is in the lazy accessor of the privileged client
    \* --- the running invocation
    pc,             \* position of the running handler
    inv,            \* [svc, op, email, groups, gid, dirty] of the running invocation
    idx,            \* index of the group being processed
    user,           \* resolved target user id
    group,          \* resolved group id
    results,        \* the results dict of GroupManager
    ret,            \* "none" | "returned" | "raised"
    retval,         \* value returned / error raised
    trace,          \* remote calls and permission decisions of this invocation
    logs,           \* log / audit entries written by this invocation
    listed,         \* last answer of list_manageable_groups
    prev,           \* summary of the previous completed invocation
    faults,         \* remote calls that have raised in this invocation
    envSteps        \* provider-side changes so far

provider == <<displayName, userVisible, spVisible, acl, members, directory>>
clients  == <<gmUserClient, gmSpClient, dgsSpClient>>
invoc    == <<pc, inv, idx, user, group, results, ret, retval, trace, logs>>
vars     == <<displayName, userVisible, spVisible, acl, members, directory,
              gmUserClient, gmSpClient, dgsSpClient, broker, cpc,
              pc, inv, idx, user, group, results, ret, retval, trace, logs,
              listed, prev, faults, envSteps>>

\* ----------------------------------------------------------------- helpers
Range(s) == {s[i] : i \in 1..Len(s)}

\* next((g for g in listing if g.display_name == name), None)
FirstMatch(listing, name) ==
    IF \E i \in 1..Len(listing) : displayName[listing[i]] = name
    THEN listing[CHOOSE i \in 1..Len(listing) :
                    /\ displayName[listing[i]] = name
                    /\ \A j \in 1..(i-1) : displayName[listing[j]] # name]
    ELSE NoneVal

\* variant: the search of the directory finds nobody
UserOfNobody(email) == NoneVal
\* next((u for u in users.list() if email in u.emails), None)
UserOf(email) ==
    IF \E u \in directory : EmailOf[u] = email
    THEN CHOOSE u \in directory : EmailOf[u] = email
    ELSE NoneVal

\* sequences without repetition over a set (the listings a handle can get)
Listings(S) ==
    {s \in UNION {[1..n -> S] : n \in 0..Cardinality(S)} :
        \A i, j \in 1..Len(s) : i # j => s[i] # s[j]}

\* lists of group names a caller passes: an existing group and a name no
\* group has, in any order and with repetitions
InputNames == {"Data-Eng", "Ghost"}
GroupLists == UNION {[1..n -> InputNames] : n \in 0..MaxLen}

EmptyResults == [success |-> <<>>, failed |-> <<>>, unauthorized |-> <<>>]
NoInv == [svc |-> NoneVal, op |-> NoneVal, email |-> NoneVal, groups |-> <<>>,
          gid |-> NoneVal, dirty |-> FALSE]
NoPrev == [op |-> NoneVal, email |-> NoneVal, groups |-> <<>>, success |-> <<>>]

Call(h, op, arg, res) == [h |-> h, op |-> op, arg |-> arg, res |-> res]

\* a remote call may raise, at most MaxFaults times per invocation
FaultChoice == IF faults < MaxFaults THEN {FALSE, TRUE} ELSE {FALSE}

\* ------------------------------------------------ AuthService.can_manage_group
\* variant: the group is searched in the listing of the privileged client
can_manage_group_privileged(name) ==
    LET g == FirstMatch(spVisible, name)
    IN  IF g = NoneVal THEN FALSE
        ELSE \E perm \in acl[g] : perm.permission_level \in {"ADMIN", "MANAGE"}
\* The decision computed by the loop of can_manage_group when no call raises:
\* the first caller-visible group with that display name decides, and any
\* access-control entry with level ADMIN or MANAGE makes the answer true.
can_manage_group(name) ==
    LET g == FirstMatch(userVisible, name)
    IN  IF g = NoneVal THEN FALSE
        ELSE \E perm \in acl[g] : perm.permission_level \in {"ADMIN", "MANAGE"}

\* remote calls issued by one evaluation of can_manage_group(name); stage says
\* which call raised ("none", "me", "list", "acl")
CheckCalls(name, stage) ==
    LET g == FirstMatch(userVisible, name)
        me   == <<Call("user", "current_user.me", NoneVal, IF stage = "me" THEN "raised" ELSE "ok")>>
        ls   == <<Call("user", "groups.list", NoneVal, IF stage = "list" THEN "raised" ELSE "ok")>>
        perm == <<Call("user", "permissions.get", g, IF stage = "acl" THEN "raised" ELSE "ok")>>
    IN  IF stage = "me" THEN me
        ELSE IF stage = "list" \/ g = NoneVal THEN me \o ls
        ELSE me \o ls \o perm

\* stages at which an evaluation of can_manage_group(name) can raise
CheckStages(name) ==
    IF faults < MaxFaults
    THEN {"none", "me", "list"} \cup
         (IF FirstMatch(userVisible, name) # NoneVal THEN {"acl"} ELSE {})
    ELSE {"none"}

\* variant: the decision is taken from the last listing of manageable groups
PermissionDecisionCached(name) ==
    \E i \in 1..Len(listed) : listed[i].displayName = name
\* "if not self.auth_service.can_manage_group(self.user_client, group_name)":
\* the decision is evaluated on the provider at the time of the call
PermissionDecision(name) == can_manage_group(name)

\* variant: a missing user is not detected
UserMissingNever(email) == FALSE
\* "if not user: raise ValueError(...)"
UserMissing(email) == UserOf(email) = NoneVal

\* variant: the membership test never matches
IsMemberNever(u, g) == FALSE
\* "any(m.id == user.id for m in members)" /
\* "next((m for m in members if m.id == user.id), None)"
IsMember(u, g) == u \in members[g]

\* variant: the mutation is issued through the caller's client
MutateCallAsCaller(op, gid, res) == Call("user", op, gid, res)
\* "self.service_principal_client.groups.add_member(...)" /
\* "self.service_principal_client.groups.remove_member(...)" /
\* "client.groups.add_member(...)": the mutation goes through the privileged client
MutateCall(op, gid, res) == Call("sp", op, gid, res)

\* variant: the membership of the group is overwritten
MembersAfterOverwrite(op, g, u) ==
    [members EXCEPT ![g] = IF op = "add" THEN {u} ELSE {}]
\* effect on the provider of groups.add_member(group_id, user_name) /
\* groups.remove_member(group_id, user_id): one pair is added / removed
MembersAfter(op, g, u) ==
    [members EXCEPT ![g] = IF op = "add" THEN @ \cup {u} ELSE @ \ {u}]

\* -------------------------------------------------------------- result lists
AddSuccess(r, name, status) ==
    [r EXCEPT !.success = Append(@, [group |-> name, status |-> status])]
\* variant: the entry is put at the front of the list
AddFailedFirst(r, name, reason) ==
    [r EXCEPT !.failed = <<[group |-> name, reason |-> reason]>> \o @]
AddFailed(r, name, reason) ==
    [r EXCEPT !.failed = Append(@, [group |-> name, reason |-> reason])]
\* variant: the unauthorized group is not recorded
AddUnauthorizedDropped(r, name) == r
AddUnauthorized(r, name) ==
    [r EXCEPT !.unauthorized = Append(@, name)]

\* one log line: logger.info / logger.error of GroupManager and AuthService
LogEntry(level, event, name) ==
    [level |-> level, event |-> event, group |-> name, success |-> NoneVal]
\* variant: the audit line always says success
AuditEntryAlwaysTrue(action, gid, success) ==
    [level |-> "info", event |-> action, group |-> gid, success |-> "True"]
\* one "AUDIT: {...}" line of DatabricksGroupService._audit_log
AuditEntry(action, gid, success) ==
    [level |-> "info", event |-> action, group |-> gid,
     success |-> IF success THEN "True" ELSE "False"]

GroupName == inv.groups[idx]

\* end of one iteration of "for group_name in group_names"
Advance ==
    IF idx < Len(inv.groups)
    THEN /\ pc' = "gm_check"
         /\ idx' = idx + 1
         /\ UNCHANGED <<ret, retval>>
    ELSE /\ pc' = "done"
         /\ idx' = idx
         /\ ret' = "returned"
         /\ retval' = "results"

\* "except Exception as e: ...; raise" of the outer try block
BatchRaised(calls, err, fault) ==
    /\ pc' = "done"
    /\ ret' = "raised"
    /\ retval' = err
    /\ logs' = Append(logs, LogEntry("error", "batch_error", NoneVal))
    /\ trace' = trace \o calls
    /\ faults' = faults + fault
    /\ UNCHANGED <<idx, results>>

\* variant: no per-group handler; the exception leaves the loop
GroupFailedAborts(calls) == BatchRaised(calls, "ProviderError", 1)
\* "except Exception as e" of the per-group try block
GroupFailed(calls) ==
    /\ results' = AddFailed(results, GroupName, "ProviderError")
    /\ logs' = Append(logs, LogEntry("error", "failed", GroupName))
    /\ trace' = trace \o calls
    /\ faults' = faults + 1
    /\ Advance

\* ------------------------------------------- building the privileged client
Services == {"gm", "dgs"}
Callers  == 1..MaxCallers
CountCap == MaxCallers + 1       \* the construction counters stop counting here
NoBroker == [creds |-> FALSE, auths |-> 0, builds |-> [s \in Services |-> 0]]
Bump(n) == IF n < CountCap THEN n + 1 ELSE n
IdleCaller == [at |-> "idle", svc |-> NoneVal, res |-> NoneVal]

\* variant: the accessor builds a client on every use
NeedsBuildAlways(memo) == TRUE
\* "if self._service_principal_client is None:"
NeedsBuild(memo) == ~memo

\* _get_service_principal_credentials has returned: "if not
\* self._service_principal_creds" builds the credentials once and keeps them
WithCredentials(b) ==
    IF b.creds THEN b ELSE [b EXCEPT !.creds = TRUE, !.auths = Bump(@)]

\* the privileged client of service instance svc has been constructed:
\* GroupManager goes through AuthService.get_service_principal_client (the
\* credentials, then Config and WorkspaceClient), DatabricksGroupService
\* builds its own credential each time
AfterBuild(b, svc) ==
    LET c == IF svc = "gm" THEN WithCredentials(b) ELSE b
    IN  [c EXCEPT !.builds[svc] = Bump(@)]

\* the brokers a failed construction can leave behind: the credentials step
\* raised (nothing kept), or, in AuthService, Config / WorkspaceClient raised
\* after the credentials were stored
AfterFailedBuild(b, svc) ==
    IF svc = "gm" THEN (IF b.creds THEN {b} ELSE {b, WithCredentials(b)}) ELSE {b}

\* ------------------------------------------------------------- GroupManager
\* add_user_to_groups / remove_user_from_groups are called
GMStart(op, email, groups) ==
    /\ pc = "idle"
    /\ pc' = "gm_resolve"
    /\ inv' = [svc |-> "gm", op |-> op, email |-> email, groups |-> groups,
               gid |-> NoneVal, dirty |-> FALSE]
    /\ idx' = 1
    /\ user' = NoneVal
    /\ group' = NoneVal
    /\ results' = EmptyResults
    /\ ret' = "none"
    /\ retval' = NoneVal
    /\ trace' = <<>>
    /\ logs' = <<>>
    /\ faults' = 0
    /\ UNCHANGED <<provider, clients, listed, prev, envSteps>>
    /\ UNCHANGED <<broker, cpc>>

\* "First, verify the user exists": the privileged client is built on first
\* use, then the directory is listed and searched for the email
GMResolveUser ==
    /\ pc = "gm_resolve"
    /\ LET build == IF NeedsBuild(gmSpClient)
                    THEN <<Call("auth", "get_service_principal_client", NoneVal, "ok")>>
                    ELSE <<>>
           built == IF NeedsBuild(gmSpClient) THEN AfterBuild(broker, "gm") ELSE broker
           buildBad == <<Call("auth", "get_service_principal_client", NoneVal, "raised")>>
           lsOk  == <<Call("sp", "users.list", NoneVal, "ok")>>
           lsBad == <<Call("sp", "users.list", NoneVal, "raised")>>
       IN  \/ \* the privileged client cannot be built
              /\ NeedsBuild(gmSpClient)
              /\ TRUE \in FaultChoice
              /\ BatchRaised(buildBad, "CredentialError", 1)
              /\ broker' \in AfterFailedBuild(broker, "gm")
              /\ UNCHANGED <<user, gmSpClient>>
           \/ \* users.list() raises
              /\ TRUE \in FaultChoice
              /\ BatchRaised(build \o lsBad, "ProviderError", 1)
              /\ gmSpClient' = TRUE
              /\ broker' = built
              /\ UNCHANGED user
           \/ \* no user has that email
              /\ UserMissing(inv.email)
              /\ BatchRaised(build \o lsOk, "UserNotFound", 0)
              /\ gmSpClient' = TRUE
              /\ broker' = built
              /\ UNCHANGED user
           \/ \* the user is found
              /\ ~UserMissing(inv.email)
              /\ user' = UserOf(inv.email)
              /\ gmSpClient' = TRUE
              /\ broker' = built
              /\ trace' = trace \o build \o lsOk
              /\ IF Len(inv.groups) = 0
                 THEN pc' = "done" /\ ret' = "returned" /\ retval' = "results"
                 ELSE pc' = "gm_check" /\ UNCHANGED <<ret, retval>>
              /\ UNCHANGED <<idx, results, logs, faults>>
    /\ UNCHANGED <<provider, gmUserClient, dgsSpClient, cpc, inv, group, listed, prev, envSteps>>

\* "Verify permission to manage this group"
GMCheck ==
    /\ pc = "gm_check"
    /\ \/ \* the caller client cannot be built: the per-group handler records it
          /\ ~gmUserClient
          /\ TRUE \in FaultChoice
          /\ GroupFailed(<<Call("auth", "get_user_client", NoneVal, "raised")>>)
          /\ UNCHANGED gmUserClient
       \/ \E stage \in CheckStages(GroupName) :
            LET build == IF gmUserClient THEN <<>>
                         ELSE <<Call("auth", "get_user_client", NoneVal, "ok")>>
                allowed == stage = "none" /\ PermissionDecision(GroupName)
                calls == build \o CheckCalls(GroupName, stage)
                         \o <<Call("auth", "can_manage_group", GroupName,
                                   IF allowed THEN "true" ELSE "false")>>
                checkLog == IF stage = "none" THEN <<>>
                            ELSE <<LogEntry("error", "check_failed", GroupName)>>
            IN  /\ gmUserClient' = TRUE
                /\ trace' = trace \o calls
                /\ logs' = logs \o checkLog
                /\ faults' = IF stage = "none" THEN faults ELSE faults + 1
                /\ IF allowed
                   THEN /\ pc' = "gm_lookup"
                        /\ UNCHANGED <<idx, results, ret, retval>>
                   ELSE /\ results' = AddUnauthorized(results, GroupName)
                        /\ Advance
    /\ UNCHANGED <<provider, gmSpClient, dgsSpClient, inv, user, group, listed, prev, envSteps>>
    /\ UNCHANGED <<broker, cpc>>

\* "Get the group"
GMLookup ==
    /\ pc = "gm_lookup"
    /\ \/ /\ TRUE \in FaultChoice
          /\ GroupFailed(<<Call("sp", "groups.list", NoneVal, "raised")>>)
          /\ UNCHANGED group
       \/ /\ FirstMatch(spVisible, GroupName) = NoneVal
          /\ results' = AddFailed(results, GroupName, "Group not found")
          /\ trace' = Append(trace, Call("sp", "groups.list", NoneVal, "ok"))
          /\ Advance
          /\ UNCHANGED <<group, logs, faults>>
       \/ /\ FirstMatch(spVisible, GroupName) # NoneVal
          /\ group' = FirstMatch(spVisible, GroupName)
          /\ trace' = Append(trace, Call("sp", "groups.list", NoneVal, "ok"))
          /\ pc' = "gm_members"
          /\ UNCHANGED <<idx, results, ret, retval, logs, faults>>
    /\ UNCHANGED <<provider, clients, inv, user, listed, prev, envSteps>>
    /\ UNCHANGED <<broker, cpc>>

\* "Check if user is already in the group" / "Check if user is in the group"
GMMembers ==
    /\ pc = "gm_members"
    /\ \/ /\ TRUE \in FaultChoice \/ group \notin Range(spVisible)
          /\ GroupFailed(<<Call("sp", "groups.list_members", group, "raised")>>)
       \/ /\ group \in Range(spVisible)
          /\ trace' = Append(trace, Call("sp", "groups.list_members", group, "ok"))
          /\ IF inv.op = "add" /\ IsMember(user, group)
             THEN /\ results' = AddSuccess(results, GroupName, "already_member")
                  /\ Advance
             ELSE IF inv.op = "remove" /\ ~IsMember(user, group)
             THEN /\ results' = AddSuccess(results, GroupName, "not_in_group")
                  /\ Advance
             ELSE /\ pc' = "gm_mutate"
                  /\ UNCHANGED <<idx, results, ret, retval>>
          /\ UNCHANGED <<logs, faults>>
    /\ UNCHANGED <<provider, clients, inv, user, group, listed, prev, envSteps>>
    /\ UNCHANGED <<broker, cpc>>

\* "Add user to group using service principal" /
\* "Remove user from group using service principal"
GMMutate ==
    /\ pc = "gm_mutate"
    /\ LET op == IF inv.op = "add" THEN "groups.add_member" ELSE "groups.remove_member"
           target == IF inv.op = "add" THEN UserOf(inv.email) ELSE user
           canDo == group \in Range(spVisible) /\ target \in directory
       IN  \/ /\ TRUE \in FaultChoice \/ ~canDo
              /\ GroupFailed(<<MutateCall(op, group, "raised")>>)
              /\ UNCHANGED members
           \/ /\ canDo
              /\ members' = MembersAfter(inv.op, group, target)
              /\ results' = AddSuccess(results, GroupName,
                                IF inv.op = "add" THEN "added" ELSE "removed")
              /\ logs' = Append(logs, LogEntry("info",
                                IF inv.op = "add" THEN "added" ELSE "removed", GroupName))
              /\ trace' = Append(trace, MutateCall(op, group, "ok"))
              /\ Advance
              /\ UNCHANGED faults
    /\ UNCHANGED <<displayName, userVisible, spVisible, acl, directory,
                   clients, inv, user, group, listed, prev, envSteps>>
    /\ UNCHANGED <<broker, cpc>>

\* ---------------------------------------------- read-only handlers (atomic)
\* filter of a listing by can_manage_group on the display name
RECURSIVE Manageable(_)
Manageable(listing) ==
    IF listing = <<>> THEN <<>>
    ELSE LET g == Head(listing)
             rest == Manageable(Tail(listing))
         IN  IF can_manage_group(displayName[g])
             THEN <<[id |-> g, displayName |-> displayName[g]]>> \o rest
             ELSE rest

RECURSIVE ListingCalls(_)
ListingCalls(listing) ==
    IF listing = <<>> THEN <<>>
    ELSE CheckCalls(displayName[Head(listing)], "none")
         \o <<Call("auth", "can_manage_group", displayName[Head(listing)],
                   IF can_manage_group(displayName[Head(listing)]) THEN "true" ELSE "false")>>
         \o ListingCalls(Tail(listing))

ReadStart(svc, op, arg) ==
    /\ pc = "idle"
    /\ pc' = "done"
    /\ inv' = [svc |-> svc, op |-> op, email |-> NoneVal, groups |-> <<>>,
               gid |-> arg, dirty |-> FALSE]
    /\ idx' = 1
    /\ user' = NoneVal
    /\ group' = NoneVal
    /\ results' = EmptyResults
    /\ logs' = <<>>

\* GroupManager.list_manageable_groups
GMListManageable ==
    /\ ReadStart("gm", "list", NoneVal)
    /\ \/ \* groups.list() raises: logged and re-raised
          /\ ret' = "raised"
          /\ retval' = "ProviderError"
          /\ trace' = <<Call("user", "groups.list", NoneVal, "raised")>>
          /\ faults' = 1
          /\ listed' = <<>>
       \/ /\ ret' = "returned"
          /\ retval' = "listing"
          /\ trace' = <<Call("user", "groups.list", NoneVal, "ok")>> \o ListingCalls(userVisible)
          /\ faults' = 0
          /\ listed' = Manageable(userVisible)
    /\ gmUserClient' = TRUE
    /\ UNCHANGED <<provider, gmSpClient, dgsSpClient, prev, envSteps>>
    /\ UNCHANGED <<broker, cpc>>

\* GroupManager.get_group_members(group_name): the group is looked up in the
\* caller's listing, its members are read through the privileged client
GMGetGroupMembers(name) ==
    /\ ReadStart("gm", "members", name)
    /\ LET g == FirstMatch(userVisible, name)
           ls == Call("user", "groups.list", NoneVal, "ok")
       IN  \/ /\ ret' = "raised"
              /\ retval' = "ProviderError"
              /\ trace' = <<Call("user", "groups.list", NoneVal, "raised")>>
              /\ faults' = 1
              /\ UNCHANGED <<gmSpClient, broker>>
           \/ /\ g = NoneVal
              /\ ret' = "returned"
              /\ retval' = "members"
              /\ trace' = <<ls>>
              /\ faults' = 0
              /\ UNCHANGED <<gmSpClient, broker>>
           \/ /\ g # NoneVal
              /\ ret' = "returned"
              /\ retval' = "members"
              /\ trace' = <<ls, Call("sp", "groups.list_members", g, "ok")>>
              /\ faults' = 0
              /\ gmSpClient' = TRUE
              /\ broker' = IF NeedsBuild(gmSpClient) THEN AfterBuild(broker, "gm") ELSE broker
    /\ gmUserClient' = TRUE
    /\ UNCHANGED <<provider, dgsSpClient, cpc, listed, prev, envSteps>>

\* DatabricksGroupService.get_group_members(group_id): read through the
\* caller client
DGSGetGroupMembers(gid) ==
    /\ ReadStart("dgs", "members", gid)
    /\ \/ /\ ret' = "raised"
          /\ retval' = "ProviderError"
          /\ trace' = <<Call("user", "groups.list_members", gid, "raised")>>
          /\ faults' = 1
       \/ /\ gid \in Range(userVisible)
          /\ ret' = "returned"
          /\ retval' = "members"
          /\ trace' = <<Call("user", "groups.list_members", gid, "ok")>>
          /\ faults' = 0
    /\ UNCHANGED <<provider, clients, listed, prev, envSteps>>
    /\ UNCHANGED <<broker, cpc>>

\* ---------------------------------------------- DatabricksGroupService
DgsGroupIds == GroupIds \cup {"g9"}      \* g9: an id no group has

AuditAction == IF inv.op = "add" THEN "ADD_USER_TO_GROUP" ELSE "REMOVE_USER_FROM_GROUP"
MeCall(raised) == Call("user", "current_user.me", NoneVal, IF raised THEN "raised" ELSE "ok")

\* The tail of add_user_to_group / remove_user_from_group once the calls
\* `calls` were made: bodyRaised says the body raised into the outer
\* "except Exception"; otherwise the body reaches _audit_log(success=planned)
\* and returns planned.  a1, a2: current_user.me() inside the first / second
\* _audit_log raises.
DGSFinish(calls, planned, bodyRaised, a1, a2) ==
    LET firstOk == ~bodyRaised /\ ~a1
        inHandler == bodyRaised \/ a1
        handlerRaises == IF bodyRaised THEN a1 ELSE a2
        audits == IF firstOk THEN <<MeCall(FALSE)>>
                  ELSE IF bodyRaised THEN <<MeCall(a1)>>
                  ELSE <<MeCall(TRUE), MeCall(a2)>>
    IN  /\ pc' = "done"
        /\ trace' = trace \o calls \o audits
        /\ logs' = IF firstOk THEN Append(logs, AuditEntry(AuditAction, inv.gid, planned))
                   ELSE IF ~handlerRaises
                        THEN Append(logs, AuditEntry(AuditAction, inv.gid, FALSE))
                        ELSE logs
        /\ ret' = IF inHandler /\ handlerRaises THEN "raised" ELSE "returned"
        /\ retval' = IF inHandler /\ handlerRaises THEN "ProviderError"
                     ELSE IF firstOk /\ planned THEN "True" ELSE "False"
        /\ faults' = faults + Len(SelectSeq(calls \o audits, LAMBDA c : c.res = "raised"))

\* variant: remove_user_from_group creates a missing user as well
CreatesOnMissAlways(op) == TRUE
\* "except Exception: user = client.users.create(...)": only
\* add_user_to_group has this handler around users.get
CreatesOnMiss(op) == op = "add"

DGSStart(op, email, gid) ==
    /\ pc = "idle"
    /\ pc' = "d_check"
    /\ inv' = [svc |-> "dgs", op |-> op, email |-> email, groups |-> <<>>,
               gid |-> gid, dirty |-> FALSE]
    /\ idx' = 1
    /\ user' = NoneVal
    /\ group' = NoneVal
    /\ results' = EmptyResults
    /\ ret' = "none"
    /\ retval' = NoneVal
    /\ trace' = <<>>
    /\ logs' = <<>>
    /\ faults' = 0
    /\ UNCHANGED <<provider, clients, listed, prev, envSteps>>
    /\ UNCHANGED <<broker, cpc>>

\* "First verify the current user has permission to modify this group"
DGSCheck ==
    /\ pc = "d_check"
    /\ \/ \* groups.get raises: audit "Permission denied", return False
          /\ \E a1, a2 \in BOOLEAN :
                DGSFinish(<<Call("user", "groups.get", inv.gid, "raised")>>,
                          FALSE, FALSE, a1, a2)
       \/ /\ inv.gid \in Range(userVisible)
          /\ pc' = "d_act"
          /\ trace' = Append(trace, Call("user", "groups.get", inv.gid, "ok"))
          /\ UNCHANGED <<ret, retval, logs, faults>>
    /\ UNCHANGED <<provider, clients, inv, idx, user, group, results, listed, prev, envSteps>>
    /\ UNCHANGED <<broker, cpc>>

\* "Use service principal to perform the action"
DGSAct ==
    /\ pc = "d_act"
    /\ LET build == IF NeedsBuild(dgsSpClient)
                    THEN <<Call("auth", "_get_service_principal_client", NoneVal, "ok")>>
                    ELSE <<>>
           built == IF NeedsBuild(dgsSpClient) THEN AfterBuild(broker, "dgs") ELSE broker
           known == UserOf(inv.email) # NoneVal
           newUser == CHOOSE u \in UserIds : EmailOf[u] = inv.email
           mutOp == IF inv.op = "add" THEN "groups.add_member" ELSE "groups.remove_member"
           present == inv.gid \in Range(spVisible)
       IN  \/ \* the privileged client cannot be built
              /\ NeedsBuild(dgsSpClient)
              /\ broker' \in AfterFailedBuild(broker, "dgs")
              /\ \E a1 \in BOOLEAN :
                   DGSFinish(<<Call("auth", "_get_service_principal_client", NoneVal, "raised")>>,
                             FALSE, TRUE, a1, FALSE)
              /\ UNCHANGED <<dgsSpClient, members, directory, user>>
           \/ \* remove: users.get raises
              /\ inv.op = "remove"
              /\ \E a1 \in BOOLEAN :
                   DGSFinish(build \o <<Call("sp", "users.get", inv.email, "raised")>>,
                             FALSE, TRUE, a1, FALSE)
              /\ dgsSpClient' = TRUE /\ broker' = built
              /\ UNCHANGED <<members, directory, user>>
           \/ \* add: users.get raises and users.create raises as well
              /\ inv.op = "add"
              /\ \E a1 \in BOOLEAN :
                   DGSFinish(build \o <<Call("sp", "users.get", inv.email, "raised"),
                                        Call("sp", "users.create", inv.email, "raised")>>,
                             FALSE, TRUE, a1, FALSE)
              /\ dgsSpClient' = TRUE /\ broker' = built
              /\ UNCHANGED <<members, directory, user>>
           \/ \* the user is found, or (add) created after users.get raised
              /\ \E created \in BOOLEAN, mutRaises, a1, a2 \in BOOLEAN :
                   LET lookup == IF created
                                 THEN <<Call("sp", "users.get", inv.email, "raised"),
                                        Call("sp", "users.create", inv.email, "ok")>>
                                 ELSE <<Call("sp", "users.get", inv.email, "ok")>>
                       target == IF created THEN newUser ELSE UserOf(inv.email)
                       mutOk == ~mutRaises
                   IN  /\ IF created THEN CreatesOnMiss(inv.op) /\ ~known ELSE known
                       /\ mutRaises \/ present
                       /\ ~mutRaises \/ ~a2
                       /\ directory' = directory \cup {target}
                       /\ user' = target
                       /\ members' = IF mutOk
                                     THEN [members EXCEPT ![inv.gid] =
                                            IF inv.op = "add" THEN @ \cup {target}
                                            ELSE @ \ {target}]
                                     ELSE members
                       /\ DGSFinish(build \o lookup
                                    \o <<MutateCall(mutOp, inv.gid,
                                                   IF mutOk THEN "ok" ELSE "raised")>>,
                                    TRUE, mutRaises, a1, a2)
              /\ dgsSpClient' = TRUE /\ broker' = built
    /\ UNCHANGED <<displayName, userVisible, spVisible, acl, gmUserClient, gmSpClient, cpc,
                   inv, idx, group, results, listed, prev, envSteps>>

\* the caller takes the result (or the error); the handler is over
Reset ==
    /\ pc' = "idle"
    /\ inv' = NoInv
    /\ idx' = 1
    /\ user' = NoneVal
    /\ group' = NoneVal
    /\ results' = EmptyResults
    /\ ret' = "none"
    /\ retval' = NoneVal
    /\ trace' = <<>>
    /\ logs' = <<>>
    /\ faults' = 0

\* list_manageable_groups is over; the frontend keeps the listing it was
\* given and goes on to the next handler
FinishRead ==
    /\ pc = "done"
    /\ inv.op = "list"
    /\ Reset
    /\ UNCHANGED <<provider, clients, listed, prev, envSteps>>
    /\ UNCHANGED <<broker, cpc>>

\* add_user_to_groups / remove_user_from_groups is over; the frontend drops
\* the listing it had shown
FinishOp ==
    /\ pc = "done"
    /\ inv.op \in {"add", "remove"}
    /\ Reset
    /\ prev' = IF /\ inv.svc = "gm" /\ ret = "returned" /\ ~inv.dirty /\ faults = 0
                  /\ Len(inv.groups) = 1 /\ Len(results.success) = 1
               THEN [op |-> inv.op, email |-> inv.email, groups |-> inv.groups,
                     success |-> results.success]
               ELSE NoPrev
    /\ listed' = <<>>
    /\ UNCHANGED <<provider, clients, envSteps>>
    /\ UNCHANGED <<broker, cpc>>

\* ------------------------------------------------------------- environment
CallerManages == {[principal |-> "caller", permission_level |-> "MANAGE"]}
OtherManages  == {[principal |-> "other",  permission_level |-> "MANAGE"]}
AclChoices    == { {}, CallerManages, OtherManages }

\* another actor grants or revokes rights on a group
EnvSetAcl(g, a) ==
    /\ envSteps < MaxEnv
    /\ a # acl[g]
    /\ acl' = [acl EXCEPT ![g] = a]
    /\ envSteps' = envSteps + 1
    /\ inv' = IF pc = "idle" THEN inv ELSE [inv EXCEPT !.dirty = TRUE]
    /\ prev' = NoPrev
    /\ UNCHANGED <<displayName, userVisible, spVisible, members, directory, clients,
                   pc, idx, user, group, results, ret, retval, trace, logs, listed, faults>>
    /\ UNCHANGED <<broker, cpc>>

\* ---------------------------------------------------------- specification
InitProgram ==
    /\ pc = "idle"
    /\ inv = NoInv
    /\ idx = 1
    /\ user = NoneVal
    /\ group = NoneVal
    /\ results = EmptyResults
    /\ ret = "none"
    /\ retval = NoneVal
    /\ trace = <<>>
    /\ logs = <<>>
    /\ listed = <<>>
    /\ prev = NoPrev
    /\ faults = 0
    /\ envSteps = 0
    /\ broker = NoBroker
    /\ cpc = [c \in Callers |-> IdleCaller]

DistinctNames == [g \in GroupIds |-> IF g = "g1" THEN "Data-Eng" ELSE "Finance"]

\* Spec: fresh services; list_manageable_groups runs any number of times,
\* then one other handler (add, remove, get_group_members) runs to its end.
Init ==
    /\ displayName = DistinctNames
    /\ userVisible = <<"g1", "g2">>
    /\ spVisible \in {<<"g1", "g2">>, <<"g2">>}
    /\ acl \in {[g \in GroupIds |-> IF g = "g1" THEN a1 ELSE a2] :
                  a1 \in AclChoices, a2 \in {{}}}
    /\ members \in {[g \in GroupIds |-> IF g = "g1" THEN m ELSE {}] : m \in {{}, {"u1"}}}
    /\ directory = {"u1"}
    /\ gmUserClient = FALSE /\ gmSpClient = FALSE /\ dgsSpClient = FALSE
    /\ InitProgram

Next ==
    \/ \E op \in {"add", "remove"}, email \in Emails, groups \in GroupLists :
          GMStart(op, email, groups)
    \/ GMResolveUser
    \/ GMCheck
    \/ GMLookup
    \/ GMMembers
    \/ GMMutate
    \/ GMListManageable
    \/ \E name \in GroupNames : GMGetGroupMembers(name)
    \/ \E gid \in DgsGroupIds : DGSGetGroupMembers(gid)
    \/ \E op \in {"add", "remove"}, email \in Emails, gid \in DgsGroupIds :
          DGSStart(op, email, gid)
    \/ DGSCheck
    \/ DGSAct
    \/ FinishRead
    \/ \E g \in GroupIds, a \in AclChoices : EnvSetAcl(g, a)

Spec == Init /\ [][Next]_vars

\* SpecSeq: single-group add / remove invocations of GroupManager one after
\* the other on one GroupManager instance.
InitSeq ==
    /\ displayName = DistinctNames
    /\ userVisible = <<"g1", "g2">>
    /\ spVisible = <<"g1", "g2">>
    /\ acl \in [GroupIds -> AclChoices]
    /\ members = [g \in GroupIds |-> {}]
    /\ directory = {"u1"}
    /\ gmUserClient = FALSE /\ gmSpClient = FALSE /\ dgsSpClient = FALSE
    /\ InitProgram

NextSeq ==
    \/ \E op \in {"add", "remove"}, email \in Emails, name \in InputNames :
          GMStart(op, email, <<name>>)
    \/ GMResolveUser
    \/ GMCheck
    \/ GMLookup
    \/ GMMembers
    \/ GMMutate
    \/ FinishOp
    \/ \E g \in GroupIds, a \in AclChoices : EnvSetAcl(g, a)

SpecSeq == InitSeq /\ [][NextSeq]_vars

\* SpecExample: the example of the specification.  The caller has MANAGE on
\* Data-Eng (g1) and no ADMIN / MANAGE on Finance (g2); no group is named
\* Ghost; a@b.com exists.
ExampleList == <<"Data-Eng", "Finance", "Ghost">>
CallerReads == {[principal |-> "caller", permission_level |-> "READ"]}

InitExample ==
    /\ displayName = DistinctNames
    /\ userVisible = <<"g1", "g2">>
    /\ spVisible = <<"g1", "g2">>
    /\ acl \in {[g \in GroupIds |-> IF g = "g1" THEN CallerManages ELSE a2] :
                  a2 \in {{}, CallerReads, OtherManages}}
    /\ members \in {[g \in GroupIds |-> IF g = "g1" THEN m ELSE {}] : m \in {{}, {"u1"}}}
    /\ directory = {"u1"}
    /\ gmUserClient = FALSE /\ gmSpClient = FALSE /\ dgsSpClient = FALSE
    /\ InitProgram

NextExample ==
    \/ GMStart("add", "a@b.com", ExampleList)
    \/ GMResolveUser
    \/ GMCheck
    \/ GMLookup
    \/ GMMembers
    \/ GMMutate

SpecExample == InitExample /\ [][NextExample]_vars

\* ------------------------------------ the lazy accessor, one step at a time
\* GroupManager.service_principal_client and DatabricksGroupService.
\* _get_service_principal_client as run by a thread c: the test of the
\* memoized client and the construction are separate steps, nothing is
\* locked in between.
Memo(svc) == IF svc = "gm" THEN gmSpClient ELSE dgsSpClient

AccessorFrame == UNCHANGED <<provider, gmUserClient, pc, inv, idx, user, group, results,
                             ret, retval, trace, logs, listed, prev, faults, envSteps>>

\* a thread starts using the privileged client of service instance svc
AccessorEnter(c, svc) ==
    /\ cpc[c].at = "idle"
    /\ cpc' = [cpc EXCEPT ![c] = [at |-> "test", svc |-> svc, res |-> NoneVal]]
    /\ UNCHANGED <<gmSpClient, dgsSpClient, broker>>
    /\ AccessorFrame

\* "if self._service_principal_client is None:"
AccessorTest(c) ==
    /\ cpc[c].at = "test"
    /\ cpc' = [cpc EXCEPT ![c] =
                 IF NeedsBuild(Memo(cpc[c].svc))
                 THEN [@ EXCEPT !.at = "construct"]
                 ELSE [@ EXCEPT !.at = "return", !.res = "memoized"]]
    /\ UNCHANGED <<gmSpClient, dgsSpClient, broker>>
    /\ AccessorFrame

\* "self._service_principal_client = <construction>": the construction
\* raises and nothing is assigned, or the new client is assigned
AccessorConstruct(c) ==
    /\ cpc[c].at = "construct"
    /\ \/ /\ broker' \in AfterFailedBuild(broker, cpc[c].svc)
          /\ cpc' = [cpc EXCEPT ![c] = [@ EXCEPT !.at = "return", !.res = "raised"]]
          /\ UNCHANGED <<gmSpClient, dgsSpClient>>
       \/ /\ broker' = AfterBuild(broker, cpc[c].svc)
          /\ cpc' = [cpc EXCEPT ![c] = [@ EXCEPT !.at = "return", !.res = "built"]]
          /\ gmSpClient' = (gmSpClient \/ cpc[c].svc = "gm")
          /\ dgsSpClient' = (dgsSpClient \/ cpc[c].svc = "dgs")
    /\ AccessorFrame

\* "return self._service_principal_client" (or the exception leaves)
AccessorReturn(c) ==
    /\ cpc[c].at = "return"
    /\ cpc' = [cpc EXCEPT ![c] = IdleCaller]
    /\ UNCHANGED <<gmSpClient, dgsSpClient, broker>>
    /\ AccessorFrame

\* SpecConc: threads that share one GroupManager and one
\* DatabricksGroupService go through the lazy accessors, in any interleaving.
InitConc ==
    /\ displayName = DistinctNames
    /\ userVisible = <<"g1", "g2">>
    /\ spVisible = <<"g1", "g2">>
    /\ acl = [g \in GroupIds |-> {}]
    /\ members = [g \in GroupIds |-> {}]
    /\ directory = {"u1"}
    /\ gmUserClient = FALSE /\ gmSpClient = FALSE /\ dgsSpClient = FALSE
    /\ InitProgram

NextConc ==
    \/ \E c \in Callers, svc \in Services : AccessorEnter(c, svc)
    \/ \E c \in Callers : AccessorTest(c)
    \/ \E c \in Callers : AccessorConstruct(c)
    \/ \E c \in Callers : AccessorReturn(c)

SpecConc == InitConc /\ [][NextConc]_vars

\* SpecFrame: groups that already have members, among them a user other
\* than the target; both emails belong to users of the directory; two groups
\* may share a display name.  One add / remove of GroupManager.
InitFrame ==
    /\ displayName \in {DistinctNames, [g \in GroupIds |-> "Data-Eng"]}
    /\ userVisible = <<"g1", "g2">>
    /\ spVisible \in {<<"g1", "g2">>, <<"g2", "g1">>}
    /\ acl \in {[g \in GroupIds |-> IF g = "g1" THEN a ELSE {}] :
                  a \in {{}, CallerManages}}
    /\ members \in [GroupIds -> SUBSET UserIds]
    /\ directory = UserIds
    /\ gmUserClient = FALSE /\ gmSpClient = FALSE /\ dgsSpClient = FALSE
    /\ InitProgram

NextFrame ==
    \/ \E op \in {"add", "remove"}, email \in Emails, groups \in GroupLists :
          GMStart(op, email, groups)
    \/ GMResolveUser
    \/ GMCheck
    \/ GMLookup
    \/ GMMembers
    \/ GMMutate

SpecFrame == InitFrame /\ [][NextFrame]_vars

\* SpecVis: the caller sees any part of the groups, in any order, two groups
\* may carry the same display name; the privileged client sees them all.
\* list_manageable_groups any number of times, then one single-group add /
\* remove of GroupManager.
SameNames == [g \in GroupIds |-> "Data-Eng"]

InitVis ==
    /\ displayName \in {DistinctNames, SameNames}
    /\ userVisible \in Listings(GroupIds)
    /\ spVisible = <<"g1", "g2">>
    /\ acl \in [GroupIds -> AclChoices]
    /\ members = [g \in GroupIds |-> {}]
    /\ directory = {"u1"}
    /\ gmUserClient = FALSE /\ gmSpClient = FALSE /\ dgsSpClient = FALSE
    /\ InitProgram

NextVis ==
    \/ \E op \in {"add", "remove"}, name \in GroupNames : GMStart(op, "a@b.com", <<name>>)
    \/ GMResolveUser
    \/ GMCheck
    \/ GMLookup
    \/ GMMembers
    \/ GMMutate
    \/ GMListManageable
    \/ FinishRead
    \/ \E g \in GroupIds, a \in AclChoices : EnvSetAcl(g, a)

SpecVis == InitVis /\ [][NextVis]_vars

\* ================================================================= claims
Count(seq, x) == Cardinality({i \in 1..Len(seq) : seq[i] = x})
GroupsOf(seq) == [i \in 1..Len(seq) |-> seq[i].group]
ResultNames == GroupsOf(results.success) \o GroupsOf(results.failed) \o results.unauthorized

GMOp == inv.svc = "gm" /\ inv.op \in {"add", "remove"}
DGSOp == inv.svc = "dgs" /\ inv.op \in {"add", "remove"}
InLoop == pc \in {"gm_check", "gm_lookup", "gm_members", "gm_mutate"}
MutatingOps == {"groups.add_member", "groups.remove_member", "users.create"}
MemberOps == {"groups.add_member", "groups.remove_member"}
IsDecision(c) == c.op = "can_manage_group"

\* groups whose iteration of the loop is over
Processed ==
    IF pc = "done" /\ ret = "returned" THEN Len(inv.groups)
    ELSE IF InLoop THEN idx - 1
    ELSE 0

\* C1: at every point of add_user_to_groups / remove_user_from_groups, and in
\* particular when it returns, each occurrence of a name among the groups
\* processed so far is in exactly one of success / failed / unauthorized:
\* for every name, the three lists together hold it as often as the processed
\* input does (once for a list without repetition), nothing else, nothing twice.
C1_Partition ==
    GMOp =>
        /\ \A name \in GroupNames :
              Count(ResultNames, name) = Count(SubSeq(inv.groups, 1, Processed), name)
        /\ Len(ResultNames) = Processed

\* a two-group batch has returned with one group in success and the other in
\* failed because a remote call raised
C1_Witness ==
    /\ GMOp /\ pc = "done" /\ ret = "returned"
    /\ Len(inv.groups) = 2 /\ inv.groups[1] # inv.groups[2]
    /\ Len(results.success) = 1 /\ Len(results.failed) = 1
    /\ results.failed[1].reason = "ProviderError"

\* C2: permission gating.  GroupManager: a group whose permission check
\* answered false is followed by no add_member / remove_member before the
\* next check, and it is in unauthorized (as often as the check answered
\* false for it).  DatabricksGroupService: when the caller's groups.get
\* raised, the operation returns False and neither builds nor uses the
\* privileged client.
C2_Gating ==
    /\ GMOp =>
          /\ \A k \in 1..Len(trace), m \in 1..Len(trace) :
                (/\ k < m /\ IsDecision(trace[k]) /\ trace[k].res = "false"
                 /\ trace[m].op \in MemberOps)
                => \E j \in (k+1)..(m-1) : IsDecision(trace[j])
          /\ \A name \in GroupNames :
                Count(results.unauthorized, name) =
                Cardinality({k \in 1..Len(trace) :
                    IsDecision(trace[k]) /\ trace[k].arg = name /\ trace[k].res = "false"})
    /\ (DGSOp /\ pc = "done" /\ trace[1].res = "raised") =>
          /\ ret = "returned" /\ retval = "False"
          /\ \A k \in 1..Len(trace) : trace[k].h = "user"

\* C3 as stated: the caller's client only lists groups, reads a group or its
\* access-control list and identifies the current user; every add_member /
\* remove_member / users.create goes through the privileged client.
C3_CallerOnlyDecides ==
    \A k \in 1..Len(trace) :
        /\ trace[k].op \in MutatingOps => trace[k].h = "sp"
        /\ trace[k].h = "user" =>
              trace[k].op \in {"groups.list", "groups.get", "permissions.get",
                               "current_user.me"}

\* C3 amended: the caller's client is used for read-only calls only (list
\* groups, read a group, read its access-control list, identify the current
\* user, list a group's members); every add_member / remove_member /
\* users.create goes through the privileged client.
C3_PrivilegeSeparation ==
    \A k \in 1..Len(trace) :
        /\ trace[k].op \in MutatingOps => trace[k].h = "sp"
        /\ trace[k].h = "user" =>
              trace[k].op \in {"groups.list", "groups.get", "permissions.get",
                               "current_user.me", "groups.list_members"}

\* an invocation has used the caller's client for the check and the
\* privileged client for a successful mutation
C3_Witness ==
    /\ pc = "done"
    /\ \E k \in 1..Len(trace) : trace[k].h = "user"
    /\ \E k \in 1..Len(trace) :
          trace[k].op \in MemberOps /\ trace[k].h = "sp" /\ trace[k].res = "ok"

\* C4: can_manage_group(name) answers true iff a group of that name is
\* visible to the caller and the caller, or a role the caller holds, has an
\* ADMIN or MANAGE entry in that group's access-control list; an entry of
\* another principal does not count.  (Checked on the answer the permission
\* check of add / remove has just given, when no call raised and the provider
\* has not changed since.)
CallerPrincipals == {"caller", "callerRole"}
ClaimedCanManage(name) ==
    \E g \in Range(userVisible) :
        /\ displayName[g] = name
        /\ \E perm \in acl[g] : /\ perm.principal \in CallerPrincipals
                                /\ perm.permission_level \in {"ADMIN", "MANAGE"}
C4_CanManage ==
    (/\ GMOp /\ ~inv.dirty /\ faults = 0 /\ Len(trace) > 0
     /\ IsDecision(trace[Len(trace)]))
    => (trace[Len(trace)].res = "true" <=> ClaimedCanManage(trace[Len(trace)].arg))

\* C5: idempotence.  When add_user_to_groups(e, [g]) has returned "added"
\* (remove: "removed") and the same call is made again, no remote call raises
\* and no other actor has changed the provider since the first call, the
\* second call returns already_member (not_in_group) for g, nothing in failed
\* or unauthorized, and issues no add_member / remove_member.
C5_Repeat ==
    /\ GMOp /\ pc = "done" /\ prev # NoPrev /\ ~inv.dirty /\ faults = 0
    /\ inv.op = prev.op /\ inv.email = prev.email /\ inv.groups = prev.groups
    /\ prev.success[1].status \in {"added", "removed"}
C5_Idempotent ==
    C5_Repeat =>
        /\ ret = "returned"
        /\ results = [success |-> <<[group |-> inv.groups[1],
                                     status |-> IF inv.op = "add" THEN "already_member"
                                                ELSE "not_in_group"]>>,
                      failed |-> <<>>, unauthorized |-> <<>>]
        /\ \A k \in 1..Len(trace) : trace[k].op \notin MemberOps

\* the second of two identical add calls has returned
C5_Witness == C5_Repeat /\ inv.op = "add" /\ ret = "returned"

\* C6: when no user of the directory has the given email, add_user_to_groups /
\* remove_user_from_groups ends by raising (UserNotFound when no remote call
\* raised), with empty result lists and without any permission check, group
\* lookup, member listing or mutation: the only calls are the construction of
\* the privileged client and users.list.
C6_UnknownUser ==
    (GMOp /\ pc = "done" /\ UserOf(inv.email) = NoneVal) =>
        /\ ret = "raised"
        /\ faults = 0 => retval = "UserNotFound"
        /\ results = EmptyResults
        /\ \A k \in 1..Len(trace) :
              trace[k].op \in {"get_service_principal_client", "users.list"}

\* a batch of at least one group for an unknown email has raised UserNotFound
C6_Witness ==
    /\ GMOp /\ pc = "done" /\ retval = "UserNotFound"
    /\ Len(inv.groups) >= 1 /\ UserOf(inv.email) = NoneVal

\* C7: when add / remove returns, every requested name that matches no group
\* visible to the privileged client is in failed with reason "Group not
\* found", and neither in success nor in unauthorized.
C7_UnknownGroup ==
    (GMOp /\ pc = "done" /\ ret = "returned") =>
        \A i \in 1..Len(inv.groups) :
            FirstMatch(spVisible, inv.groups[i]) = NoneVal =>
                /\ \E k \in 1..Len(results.failed) :
                      results.failed[k] = [group |-> inv.groups[i],
                                           reason |-> "Group not found"]
                /\ Count(GroupsOf(results.success), inv.groups[i]) = 0
                /\ Count(results.unauthorized, inv.groups[i]) = 0

\* C8: in the example (caller has MANAGE on Data-Eng, no ADMIN / MANAGE on
\* Finance, no group Ghost, a@b.com exists) add_user_to_groups("a@b.com",
\* ["Data-Eng", "Finance", "Ghost"]), when no remote call raises, returns
\* success = [Data-Eng: added or already_member], unauthorized = [Finance],
\* failed = [Ghost: "Group not found"].
C8_Example ==
    (GMOp /\ pc = "done" /\ faults = 0 /\ inv.groups = ExampleList) =>
        /\ ret = "returned"
        /\ Len(results.success) = 1
        /\ results.success[1].group = "Data-Eng"
        /\ results.success[1].status \in {"added", "already_member"}
        /\ results.unauthorized = <<"Finance">>
        /\ results.failed = <<[group |-> "Ghost", reason |-> "Group not found"]>>

\* C9: once the target user is resolved, add / remove never raises: whatever
\* raises while a group is processed, every group of the list gets its
\* iteration (one begun iteration per requested group when the call is over)
\* and the invocation returns its result.
IterationStarts ==
    Cardinality({k \in 1..Len(trace) :
        \/ IsDecision(trace[k])
        \/ trace[k].op = "get_user_client" /\ trace[k].res = "raised"})
C9_Isolation ==
    (GMOp /\ user # NoneVal) =>
        /\ ret # "raised"
        /\ IterationStarts = IF pc = "gm_check" THEN idx - 1
                             ELSE IF InLoop THEN idx
                             ELSE Len(inv.groups)
        /\ pc = "done" => ret = "returned"

\* the first group of a two-group batch failed on a raising remote call and
\* the second group was still added / removed
C9_Witness ==
    /\ GMOp /\ pc = "done" /\ ret = "returned" /\ Len(inv.groups) = 2
    /\ Len(results.failed) = 1
    /\ results.failed[1] = [group |-> inv.groups[1], reason |-> "ProviderError"]
    /\ Len(results.success) = 1
    /\ results.success[1].group = inv.groups[2]
    /\ results.success[1].status \in {"added", "removed"}

\* C10: revalidation.  Every add_member / remove_member of GroupManager is
\* preceded, in the same invocation and with no other permission check in
\* between, by a permission check on the display name of the mutated group
\* that answered true; and every permission check that answers true is
\* evaluated on the provider as it is at that moment (some caller-visible
\* group of that name has an ADMIN / MANAGE entry now), not on an earlier
\* listing.
GrantsNow(name) ==
    \E g \in Range(userVisible) :
        /\ displayName[g] = name
        /\ \E perm \in acl[g] : perm.permission_level \in {"ADMIN", "MANAGE"}
C10_Step ==
    \A k \in (Len(trace) + 1)..Len(trace') :
        /\ (inv'.svc = "gm" /\ trace'[k].op \in MemberOps) =>
              \E j \in 1..(k-1) :
                  /\ IsDecision(trace'[j]) /\ trace'[j].res = "true"
                  /\ trace'[j].arg = displayName[trace'[k].arg]
                  /\ \A m \in (j+1)..(k-1) : ~IsDecision(trace'[m])
        /\ (IsDecision(trace'[k]) /\ trace'[k].res = "true") => GrantsNow(trace'[k].arg)
C10_Revalidation == [][C10_Step]_vars

\* a group that list_manageable_groups had listed as manageable was revoked
\* afterwards and the add / remove that followed left it unauthorized, with
\* no mutation
C10_Witness ==
    /\ GMOp /\ pc = "done" /\ ret = "returned" /\ faults = 0
    /\ Len(inv.groups) = 1
    /\ \E i \in 1..Len(listed) :
          /\ listed[i].displayName = inv.groups[1]
          /\ results.unauthorized = <<inv.groups[1]>>
    /\ \A k \in 1..Len(trace) : trace[k].op \notin MemberOps

\* C11: a permission check on a display name that no caller-visible group has
\* answers false and does not raise (the group goes to unauthorized and the
\* loop goes on), also when the privileged client sees a group of that name;
\* and the answer of a check in which no call raised is fixed by the
\* caller-visible groups and their access-control lists alone: it is true
\* iff the first group of that name in the caller's listing has an ADMIN /
\* MANAGE entry.
CallerSees(name) == \E g \in Range(userVisible) : displayName[g] = name
CallerFirstGrants(name) ==
    \E i \in 1..Len(userVisible) :
        /\ displayName[userVisible[i]] = name
        /\ \A j \in 1..(i-1) : displayName[userVisible[j]] # name
        /\ \E perm \in acl[userVisible[i]] : perm.permission_level \in {"ADMIN", "MANAGE"}
C11_Step ==
    \A k \in (Len(trace) + 1)..Len(trace') :
        IsDecision(trace'[k]) =>
            /\ ~CallerSees(trace'[k].arg) => trace'[k].res = "false"
            /\ faults' = faults => (trace'[k].res = "true" <=> CallerFirstGrants(trace'[k].arg))
            /\ (inv'.op \in {"add", "remove"} /\ ~CallerSees(trace'[k].arg)) =>
                  /\ ret' # "raised"
                  /\ results' = [results EXCEPT !.unauthorized = Append(@, trace'[k].arg)]
C11_InvisibleNotPermitted == [][C11_Step]_vars

\* an add / remove on a name that only the privileged client sees, whose
\* group has a MANAGE entry, has returned with the name in unauthorized
C11_Witness ==
    /\ GMOp /\ pc = "done" /\ ret = "returned" /\ faults = 0
    /\ Len(inv.groups) = 1
    /\ ~CallerSees(inv.groups[1])
    /\ \E g \in Range(spVisible) :
          /\ displayName[g] = inv.groups[1]
          /\ \E perm \in acl[g] : perm.permission_level = "MANAGE"
    /\ results = [success |-> <<>>, failed |-> <<>>, unauthorized |-> <<inv.groups[1]>>]

\* C12: audit completeness of add_user_to_groups / remove_user_from_groups.
\* Every group that got past the permission check (it is in success with
\* added / removed / already_member / not_in_group, or in failed with "Group
\* not found" or a provider failure) has written exactly one log entry, and
\* that entry tells its outcome; a group in unauthorized has written none.
\* Per display name: as many log entries as entries in success and failed;
\* as many "added" / "removed" lines as such statuses; as many "failed" lines
\* as entries in failed.
LogsOf(name) == SelectSeq(logs, LAMBDA e : e.group = name)
C12_AuditCompleteness ==
    GMOp =>
        \A name \in GroupNames :
            /\ Len(LogsOf(name)) =
                  Count(GroupsOf(results.success), name) + Count(GroupsOf(results.failed), name)
            /\ Len(SelectSeq(LogsOf(name), LAMBDA e : e.event = "failed")) =
                  Count(GroupsOf(results.failed), name)
            /\ \A st \in {"added", "removed", "already_member", "not_in_group"} :
                  Len(SelectSeq(LogsOf(name), LAMBDA e : e.event = st)) =
                  Len(SelectSeq(results.success,
                                LAMBDA r : r.group = name /\ r.status = st))

\* C13: when add_user_to_group / remove_user_from_group of
\* DatabricksGroupService is over and no current_user.me() of _audit_log has
\* raised, the invocation has returned a boolean and has written exactly one
\* audit entry, for its action and its group, whose success flag is the
\* boolean returned (permission denied, provider failure and success alike).
AuditSinkFailed ==
    \E k \in 1..Len(trace) : trace[k].op = "current_user.me" /\ trace[k].res = "raised"
C13_OneAuditEntry ==
    (DGSOp /\ pc = "done" /\ ~AuditSinkFailed) =>
        /\ ret = "returned"
        /\ retval \in {"True", "False"}
        /\ logs = <<[level |-> "info", event |-> AuditAction, group |-> inv.gid,
                     success |-> retval]>>

\* add_member / remove_member raised; the invocation returned False and
\* wrote one audit entry with success False
C13_Witness ==
    /\ DGSOp /\ pc = "done" /\ ~AuditSinkFailed
    /\ \E k \in 1..Len(trace) : trace[k].op \in MemberOps /\ trace[k].res = "raised"
    /\ retval = "False"
    /\ Len(logs) = 1 /\ logs[1].success = "False"

\* C14: a failure of the audit / log write does not touch the outcome of the
\* membership operation.  DatabricksGroupService: once add_member /
\* remove_member has succeeded, the invocation returns True, whatever
\* _audit_log does.  GroupManager: every successful add_member /
\* remove_member is one "added" / "removed" entry of success, the invocation
\* does not raise, and that group's iteration adds nothing to failed.
MutationsDone ==
    Cardinality({k \in 1..Len(trace) : trace[k].op \in MemberOps /\ trace[k].res = "ok"})
C14_AuditFailureHarmless ==
    /\ (DGSOp /\ pc = "done" /\ MutationsDone > 0) =>
          ret = "returned" /\ retval = "True"
    /\ (GMOp /\ MutationsDone > 0) =>
          /\ ret # "raised"
          /\ MutationsDone =
                Len(SelectSeq(results.success, LAMBDA r : r.status \in {"added", "removed"}))
          /\ Len(results.success) + Len(results.failed) + Len(results.unauthorized)
                = Processed

\* C15: credential memoization.  Over any sequence of add / remove
\* invocations on one GroupManager, the privileged client is constructed at
\* most once and the credentials are built at most once; the client is
\* memoized exactly when it has been constructed, and an invocation that
\* starts with the memoized client makes no construction call.
IsBuildCall(c) == c.op \in {"get_service_principal_client", "_get_service_principal_client"}
C15_Memoized ==
    /\ broker.builds["gm"] <= 1
    /\ broker.auths <= 1
    /\ gmSpClient <=> broker.builds["gm"] = 1
    /\ (GMOp /\ prev # NoPrev) => \A k \in 1..Len(trace) : ~IsBuildCall(trace[k])

\* a second invocation on the same GroupManager has used the privileged
\* client without any construction call; one client was built in all
C15_Witness ==
    /\ GMOp /\ pc = "done" /\ ret = "returned" /\ prev # NoPrev
    /\ broker.builds["gm"] = 1
    /\ \E k \in 1..Len(trace) : trace[k].h = "sp" /\ trace[k].res = "ok"
    /\ \A k \in 1..Len(trace) : ~IsBuildCall(trace[k])

\* C16: credential failure.  When the construction of the privileged client
\* raises in add_user_to_groups / remove_user_from_groups, the invocation
\* raises, the result lists are empty, the failed construction is the only
\* call made (no group is processed, no mutation is issued), and nothing is
\* kept: neither the client nor the credentials are memoized.
BuildFailed ==
    \E k \in 1..Len(trace) : IsBuildCall(trace[k]) /\ trace[k].res = "raised"
C16_CredentialFailure ==
    (GMOp /\ pc = "done" /\ BuildFailed) =>
        /\ ret = "raised"
        /\ results = EmptyResults
        /\ Len(trace) = 1
        /\ ~gmSpClient
        /\ ~broker.creds

\* C17: however the threads that share a service instance interleave in its
\* lazy accessor, the privileged client of that instance is constructed at
\* most once.
C17_SingleConstruction ==
    \A svc \in Services : broker.builds[svc] <= 1

\* C18 as stated: add_user_to_groups / remove_user_from_groups with an empty
\* list of groups, for any email, when no remote call raises: the invocation
\* returns, the three result lists are empty and no add_member /
\* remove_member / users.create is issued.
EmptyBatchDone == GMOp /\ pc = "done" /\ inv.groups = <<>> /\ faults = 0
EmptyOutcome ==
    /\ ret = "returned"
    /\ results = [success |-> <<>>, failed |-> <<>>, unauthorized |-> <<>>]
    /\ \A k \in 1..Len(trace) : trace[k].op \notin MutatingOps
C18_EmptyBatchAnyEmail == EmptyBatchDone => EmptyOutcome

\* C18 amended: the same for the email of a user of the directory (the user
\* is resolved before the list is looked at; an unknown email raises).
InDirectory(email) == \E u \in directory : EmailOf[u] = email
C18_EmptyBatch == (EmptyBatchDone /\ InDirectory(inv.email)) => EmptyOutcome

\* an invocation with an empty list for an existing user has returned
C18_Witness ==
    /\ EmptyBatchDone /\ InDirectory(inv.email)
    /\ ret = "returned" /\ Len(trace) > 0

\* C19: failure classification in add_user_to_groups / remove_user_from_groups.
\* Once the user is resolved, every remote call that raises while a group is
\* processed (in the permission check, the group lookup, the member listing
\* or the mutation) is one entry of failed for that group with the message
\* of the exception, and unauthorized gets a group only from a permission
\* check that ran to its end, without a raising call, and answered false.
CleanDenials ==
    {k \in 2..Len(trace) :
        /\ IsDecision(trace[k]) /\ trace[k].res = "false"
        /\ trace[k-1].res # "raised"}
C19_FailureClassification ==
    (GMOp /\ user # NoneVal) =>
        /\ Len(SelectSeq(results.failed, LAMBDA r : r.reason = "ProviderError")) = faults
        /\ Len(results.unauthorized) = Cardinality(CleanDenials)
        /\ \A name \in GroupNames :
              Count(results.unauthorized, name) =
              Cardinality({k \in CleanDenials : trace[k].arg = name})

\* C20: sequential ordering in add_user_to_groups / remove_user_from_groups.
\* The groups are taken one at a time in the order of the input: the index
\* of the group being processed only goes up, by one, when an iteration is
\* over; every permission decision, every call on a group, every log entry
\* and every result entry made by a step belongs to the group at that index
\* and is appended after everything made before.  Hence all calls and log
\* entries of group i come before any of group i+1, and each result list
\* names its groups in the order of the input.
IsPrefix(a, b) == Len(a) <= Len(b) /\ SubSeq(b, 1, Len(a)) = a
IsSubSeq(a, b) ==
    \E f \in [1..Len(a) -> 1..Len(b)] :
        /\ \A i, j \in 1..Len(a) : i < j => f[i] < f[j]
        /\ \A i \in 1..Len(a) : a[i] = b[f[i]]
GroupCallOps == {"permissions.get", "groups.list_members"} \cup MemberOps
C20_Order ==
    GMOp =>
        /\ IsSubSeq(GroupsOf(results.success), inv.groups)
        /\ IsSubSeq(GroupsOf(results.failed), inv.groups)
        /\ IsSubSeq(results.unauthorized, inv.groups)
C20_Step ==
    (GMOp /\ InLoop) =>
        /\ idx' \in {idx, idx + 1}
        /\ idx' = idx + 1 => pc' = "gm_check"
        /\ IsPrefix(trace, trace') /\ IsPrefix(logs, logs')
        /\ \A k \in (Len(trace) + 1)..Len(trace') :
              /\ IsDecision(trace'[k]) => trace'[k].arg = inv.groups[idx]
              /\ trace'[k].op \in GroupCallOps =>
                    displayName[trace'[k].arg] = inv.groups[idx]
        /\ \A k \in (Len(logs) + 1)..Len(logs') : logs'[k].group = inv.groups[idx]
        /\ IsPrefix(results.success, results'.success)
        /\ IsPrefix(results.failed, results'.failed)
        /\ IsPrefix(results.unauthorized, results'.unauthorized)
        /\ \A k \in (Len(results.success) + 1)..Len(results'.success) :
              results'.success[k].group = inv.groups[idx]
        /\ \A k \in (Len(results.failed) + 1)..Len(results'.failed) :
              results'.failed[k].group = inv.groups[idx]
        /\ \A k \in (Len(results.unauthorized) + 1)..Len(results'.unauthorized) :
              results'.unauthorized[k] = inv.groups[idx]
C20_Sequential == [][C20_Step /\ C20_Order']_vars

\* a batch of two different names has returned with both names in the same
\* result list, after remote calls for each
C20_Witness ==
    /\ GMOp /\ pc = "done" /\ ret = "returned"
    /\ Len(inv.groups) = 2 /\ inv.groups[1] # inv.groups[2]
    /\ \/ GroupsOf(results.failed) = inv.groups
       \/ results.unauthorized = inv.groups
    /\ Cardinality({k \in 1..Len(trace) : IsDecision(trace[k])}) >= 1

\* C21: the group that is checked is the group that is mutated.  Every
\* add_member / remove_member of GroupManager on a group id G comes after a
\* read of the access-control list of that same id G by the permission
\* check of the same iteration (the last permissions.get before the
\* mutation), also when groups share a display name and the two clients
\* list them differently.
C21_CheckedIsMutated ==
    GMOp =>
        \A k \in 1..Len(trace) :
            trace[k].op \in MemberOps =>
                \E j \in 1..(k-1) :
                    /\ trace[j].op = "permissions.get"
                    /\ trace[j].res = "ok"
                    /\ trace[j].arg = trace[k].arg
                    /\ \A m \in (j+1)..(k-1) : trace[m].op # "permissions.get"

\* C22: frame of a mutation.  A step of add_user_to_groups /
\* remove_user_from_groups leaves the membership relation as it is or changes
\* it in exactly one pair (target user, g): g carries a requested display
\* name for which the permission check of this invocation answered true, the
\* target is the user of the given email, an add only adds the pair and a
\* remove only removes it; every other user's and every other group's
\* memberships stay, and the set of groups, their names and the listings of
\* both clients do not change (no group is created or deleted).
AllowedNames ==
    {trace[k].arg : k \in {i \in 1..Len(trace) :
                             IsDecision(trace[i]) /\ trace[i].res = "true"}}
C22_Step ==
    (inv.svc = "gm" /\ inv.op \in {"add", "remove"} /\ pc # "idle") =>
        /\ DOMAIN members' = DOMAIN members
        /\ displayName' = displayName
        /\ userVisible' = userVisible /\ spVisible' = spVisible
        /\ members' # members =>
              \E g \in GroupIds :
                  LET target == CHOOSE u \in UserIds : EmailOf[u] = inv.email
                  IN  /\ \A h \in GroupIds \ {g} : members'[h] = members[h]
                      /\ displayName[g] \in Range(inv.groups)
                      /\ displayName[g] \in AllowedNames
                      /\ IF inv.op = "add"
                         THEN target \notin members[g] /\ members'[g] = members[g] \cup {target}
                         ELSE target \in members[g] /\ members'[g] = members[g] \ {target}
C22_Frame == [][C22_Step]_vars

\* an add has put the target user into a group that had another member,
\* and that member and the other group's members are still there
C22_Witness ==
    /\ GMOp /\ pc = "done" /\ ret = "returned" /\ inv.op = "add"
    /\ \E k \in 1..Len(trace) :
          /\ trace[k].op = "groups.add_member" /\ trace[k].res = "ok"
          /\ members[trace[k].arg] = UserIds
          /\ \E h \in GroupIds \ {trace[k].arg} : members[h] # {}

\* C23: when list_manageable_groups has returned (and the provider has not
\* changed since), its answer is, in the order of the caller's listing, the
\* caller-visible groups whose display name passes the permission check,
\* each as {id, displayName} of that group, and the access-control list of
\* every returned id has an ADMIN / MANAGE entry, also when two visible
\* groups share a display name.
PassingGroups == SelectSeq(userVisible, LAMBDA g : CallerFirstGrants(displayName[g]))
C23_ListManageable ==
    (inv.svc = "gm" /\ inv.op = "list" /\ pc = "done" /\ ret = "returned" /\ ~inv.dirty) =>
        /\ listed = [i \in 1..Len(PassingGroups) |->
                        [id |-> PassingGroups[i], displayName |-> displayName[PassingGroups[i]]]]
        /\ \A i \in 1..Len(listed) :
              \E perm \in acl[listed[i].id] : perm.permission_level \in {"ADMIN", "MANAGE"}

\* C24: effect on the user directory.  add_user_to_groups /
\* remove_user_from_groups of GroupManager and remove_user_from_group of
\* DatabricksGroupService issue no users.create and leave the directory as it
\* is.  add_user_to_group of DatabricksGroupService issues users.create,
\* once, for the given email, exactly when its users.get raised: right after
\* it, after the caller's groups.get succeeded and before any add_member; the
\* directory changes only by gaining the user of that email, when that
\* users.create succeeded.
CreateCalls(t) == {k \in 1..Len(t) : t[k].op = "users.create"}
C24_Step ==
    /\ ((GMOp' \/ DGSOp') /\ ~(inv'.svc = "dgs" /\ inv'.op = "add")) =>
          /\ CreateCalls(trace') = {}
          /\ directory' = directory
    /\ (inv'.svc = "dgs" /\ inv'.op = "add") =>
          /\ Cardinality(CreateCalls(trace')) <= 1
          /\ \A k \in CreateCalls(trace') :
                /\ trace'[k].arg = inv'.email /\ trace'[k].h = "sp"
                /\ k > 1 /\ trace'[k-1].op = "users.get" /\ trace'[k-1].res = "raised"
                /\ trace'[1].op = "groups.get" /\ trace'[1].res = "ok"
                /\ \A m \in 1..k : trace'[m].op \notin MemberOps
          /\ \A k \in 1..Len(trace') :
                (trace'[k].op = "users.get" /\ trace'[k].res = "raised") =>
                    (k + 1) \in CreateCalls(trace')
          /\ directory' # directory =>
                /\ \E k \in CreateCalls(trace') \ CreateCalls(trace) : trace'[k].res = "ok"
                /\ directory' = directory \cup {u \in UserIds : EmailOf[u] = inv'.email}
          /\ \A k \in CreateCalls(trace') :
                trace'[k].res = "ok" => \E u \in directory' : EmailOf[u] = inv'.email
C24_DirectoryEffect == [][C24_Step]_vars

\* add_user_to_group for an email nobody had: users.get raised, the user was
\* created and then added to the group
C24_Witness ==
    /\ DGSOp /\ inv.op = "add" /\ pc = "done" /\ retval = "True"
    /\ \E k \in CreateCalls(trace) : trace[k].res = "ok"
    /\ directory = UserIds
    /\ \E k \in 1..Len(trace) : trace[k].op = "groups.add_member" /\ trace[k].res = "ok"

====
